---- MODULE Spec2Model ----
(***************************************************************************)
(* Conference Central (src/conference.py): the request handlers of         *)
(* ConferenceApi over the datastore entities Profile, Conference and       *)
(* Session, and the push task queue.                                       *)
(*                                                                         *)
(* Requests run concurrently.  Each in-flight request occupies a slot of   *)
(* `req`; every datastore call of a handler that is not inside a           *)
(* transaction is a step of its own, so other requests may run between a   *)
(* handler's get() and its put().  A handler under @ndb.transactional      *)
(* is one step: the decorator commits the function's reads and writes      *)
(* together or runs the function again, and an exception rolls back.       *)
(*                                                                         *)
(* An optional value (a message field that may be None, the result of      *)
(* key.get()) is a sequence of length 0 or 1.                              *)
(***************************************************************************)
EXTENDS Integers, Sequences, FiniteSets, TLC

\* ---------------------------------------------------------------- bounds
MaxConfs == 1        \* conference ids allocate_ids hands out
MaxSessions == 3     \* session ids allocate_ids hands out
MaxWishlist == 1     \* session keys the wishlist requests carry
MaxSlots == 2        \* requests in flight at the same time
MaxAttendees == 2    \* largest maxAttendees a ConferenceForm carries
MaxOps == 2          \* seats one profile is counted to hold, or to have given back

\* ---------------------------------------------------------------- values
Users == {"u1", "u2", "u3"}
NoUser == "anonymous"            \* endpoints.get_current_user() returns None
Callers == Users \cup {NoUser}
ConfKeys == 1..MaxConfs          \* websafeConferenceKey values a request may carry
SessionKeys == 1..MaxSessions    \* the keys of the sessions stored
WishlistKeys == 1..MaxWishlist   \* sessionKey values a wishlist request carries
SpeakerKeys == {"sp1", "sp2"}    \* speaker ids allocate_ids hands out
SpeakerNames == {"Ann", "Bob"}
Slots == 1..MaxSlots

None == <<>>
Some(x) == <<x>>
Opt(S) == {None} \cup {Some(x) : x \in S}
IsNone(o) == Len(o) = 0
Val(o) == o[1]

\* DEFAULTS of src/conference.py (city and topics are copied to the entity
\* and read by no handler modelled here)
DEFAULTS == [maxAttendees |-> 0, seatsAvailable |-> 0]

ConflictException ==
    {"Conflict:AlreadyRegistered", "Conflict:NoSeats",
     "Conflict:AlreadyInWishlist", "Conflict:NotInWishlist"}

\* ---------------------------------------------------------------- datastore
Get(store, k) == IF k \in DOMAIN store THEN Some(store[k]) ELSE None
Put(store, k, v) ==
    [x \in (DOMAIN store) \cup {k} |-> IF x = k THEN v ELSE store[x]]
Contains(list, x) == \E i \in 1..Len(list) : list[i] = x
\* list.remove(x): removes the first occurrence
Remove(list, x) ==
    LET i == CHOOSE j \in 1..Len(list) :
                 list[j] = x /\ \A k \in 1..(j - 1) : list[k] # x
    IN  SubSeq(list, 1, i - 1) \o SubSeq(list, i + 1, Len(list))
Count(list, x) == Cardinality({i \in 1..Len(list) : list[i] = x})

VARIABLES
    profiles,      \* Profile entities: user id -> entity
    conferences,   \* Conference entities: conference key -> entity
    sessions,      \* Session entities: session key -> entity
    taskqueue,     \* tasks added with taskqueue.add, oldest first
    req,           \* request slots: the handler running in each and its locals
    response,      \* the response (or exception) of the request that ended last
    seatsHeld,     \* history: per user and conference, the registrations that
                   \* returned True less the unregistrations that returned True
    speakers,      \* Speaker entities: speaker key -> entity
    memcache,      \* memcache: key -> value
    query          \* the filters of the last queryConferences and what
                   \* _getQuery made of them

vars == <<profiles, conferences, sessions, taskqueue, req, response, seatsHeld,
          speakers, memcache, query>>

\* what the handlers of conferences, profiles, registration, sessions and
\* wishlists never write
others == <<speakers, memcache, query>>

NoQuery == [filters |-> << >>, error |-> "", inequality_filter |-> << >>,
            order |-> <<"name">>, nodes |-> << >>]

NoForm == [displayName |-> None, teeShirtSize |-> None]
Idle == [pc |-> "idle", op |-> "none", user |-> NoUser, key |-> 0,
         form |-> NoForm, prof |-> None, conf |-> None, fresh |-> FALSE]

Free(r) == req[r].pc = "idle"

\* the handler `op`, called by u with key k, returns (or raises) `res`
Response(op, u, k, res) == [op |-> op, user |-> u, key |-> k, result |-> res]

\* the datastore, the task queue and memcache empty, no request in flight
InitStore ==
    /\ profiles = << >>
    /\ conferences = << >>
    /\ sessions = << >>
    /\ taskqueue = << >>
    /\ req = [r \in Slots |-> Idle]
    /\ response = Response("none", NoUser, 0, "none")
    /\ seatsHeld = [u \in Users |-> [c \in ConfKeys |-> 0]]
    /\ speakers = << >>
    /\ memcache = << >>

Init == InitStore /\ query = NoQuery

\* ---------------------------------------------------------------- conferences
ConferenceForms ==
    [name : Opt({"Conf"}),
     maxAttendees : Opt(0..MaxAttendees),
     seatsAvailable : Opt({1})]

\* the DEFAULTS loop
WithDefault(form, df) == IF IsNone(form[df]) THEN DEFAULTS[df] ELSE Val(form[df])

\* the Conference entity _createConferenceObject puts for `form`
NewConference(u, form) ==
    LET maxAttendees == WithDefault(form, "maxAttendees")
        seatsAvailable == WithDefault(form, "seatsAvailable")
    IN  [name |-> Val(form.name),
         maxAttendees |-> maxAttendees,
         seatsAvailable |-> IF maxAttendees > 0 THEN maxAttendees
                            ELSE seatsAvailable,
         organizerUserId |-> u]

\* Conference.allocate_ids(size=1, parent=p_key)[0]
AllocConfId == Cardinality(DOMAIN conferences) + 1

\* _createConferenceObject(self, request), called with both its parameters
_createConferenceObject(u, form) ==
    /\ UNCHANGED <<profiles, sessions, req, seatsHeld>>
    /\ UNCHANGED others
    /\ IF u = NoUser
       THEN /\ response' = Response("_createConferenceObject", u, 0,
                                    "UnauthorizedException")
            /\ UNCHANGED <<conferences, taskqueue>>
       ELSE IF IsNone(form.name)
       THEN /\ response' = Response("_createConferenceObject", u, 0,
                                    "BadRequestException")
            /\ UNCHANGED <<conferences, taskqueue>>
       ELSE /\ AllocConfId <= MaxConfs
            /\ conferences' = Put(conferences, AllocConfId, NewConference(u, form))
            /\ taskqueue' = Append(taskqueue,
                   [url |-> "/tasks/send_confirmation_email", params |-> <<u>>])
            /\ response' = Response("_createConferenceObject", u, AllocConfId,
                                    "ConferenceForm")

\* createConference: self._createConferenceObject(request) on a @staticmethod
\* that takes (self, request) binds one argument of two
createConference(u, form) ==
    /\ response' = Response("createConference", u, 0, "TypeError")
    /\ UNCHANGED others
    /\ UNCHANGED <<profiles, conferences, sessions, taskqueue, req, seatsHeld>>

\* ---------------------------------------------------------------- profiles
\* the Profile _getProfileFromUser makes for a first-time caller
NewProfile(u) ==
    [displayName |-> u, teeShirtSize |-> "NOT_SPECIFIED",
     conferenceKeysToAttend |-> << >>, sessionWishlist |-> << >>]

\* _getProfileFromUser outside a transaction: the identity check and
\* p_key.get(); a missing Profile is put in a step of its own, and `fresh`
\* says that the request took the branch `if not profile`
_getProfileFromUser(r, op, u, k, form, then) ==
    /\ Free(r)
    /\ UNCHANGED others
    /\ UNCHANGED <<profiles, conferences, sessions, taskqueue, seatsHeld>>
    /\ IF u = NoUser
       THEN /\ response' = Response(op, u, k, "UnauthorizedException")
            /\ UNCHANGED req
       ELSE /\ UNCHANGED response
            /\ req' = [req EXCEPT ![r] =
                 [pc |-> IF u \in DOMAIN profiles THEN then ELSE "newProfile",
                  op |-> op, user |-> u, key |-> k, form |-> form,
                  prof |-> IF u \in DOMAIN profiles THEN Some(profiles[u])
                           ELSE Some(NewProfile(u)),
                  conf |-> None,
                  fresh |-> u \notin DOMAIN profiles]]

\* where a handler goes on after _getProfileFromUser
AfterProfile(op) == IF op = "saveProfile" THEN "displayName"
                    ELSE IF op = "addSpeaker" THEN "speaker"
                    ELSE "loaded"

\* profile.put() of the new Profile (line 772)
_getProfileFromUserPut(r) ==
    /\ req[r].pc = "newProfile"
    /\ UNCHANGED others
    /\ profiles' = Put(profiles, req[r].user, Val(req[r].prof))
    /\ req' = [req EXCEPT ![r].pc = AfterProfile(req[r].op)]
    /\ UNCHANGED <<conferences, sessions, taskqueue, response, seatsHeld>>

ProfileMiniForms ==
    [displayName : Opt({"Dn"}), teeShirtSize : Opt({"NOT_SPECIFIED"})]

saveProfile(r, u, form) ==
    _getProfileFromUser(r, "saveProfile", u, 0, form, AfterProfile("saveProfile"))

\* _doProfile: one turn of the loop over ('displayName', 'teeShirtSize');
\* after the last field the ProfileForm is returned
_doProfile(r) ==
    LET field == req[r].pc
        val == req[r].form[field]
        prof == IF IsNone(val) THEN Val(req[r].prof)
                ELSE [Val(req[r].prof) EXCEPT ![field] = Val(val)]
    IN  /\ req[r].pc \in {"displayName", "teeShirtSize"}
        /\ profiles' = IF IsNone(val) THEN profiles
                       ELSE Put(profiles, req[r].user, prof)
        /\ IF field = "displayName"
           THEN /\ req' = [req EXCEPT ![r].pc = "teeShirtSize",
                                      ![r].prof = Some(prof)]
                /\ UNCHANGED response
           ELSE /\ req' = [req EXCEPT ![r] = Idle]
                /\ response' = Response("saveProfile", req[r].user, 0, "ProfileForm")
        /\ UNCHANGED <<conferences, sessions, taskqueue, seatsHeld>>
        /\ UNCHANGED others

\* ---------------------------------------------------------------- registration
\* wsck in prof.conferenceKeysToAttend
AlreadyRegistered_Never(prof, wsck) == FALSE
AlreadyRegistered(prof, wsck) == Contains(prof.conferenceKeysToAttend, wsck)

\* conf.seatsAvailable <= 0
NoSeats_Negative(conf) == conf.seatsAvailable < 0
NoSeats(conf) == conf.seatsAvailable <= 0

\* register user, take away one seat
Register_KeepSeat(prof, conf, wsck) ==
    [prof |-> [prof EXCEPT !.conferenceKeysToAttend = Append(@, wsck)],
     conf |-> conf]
Register(prof, conf, wsck) ==
    [prof |-> [prof EXCEPT !.conferenceKeysToAttend = Append(@, wsck)],
     conf |-> [conf EXCEPT !.seatsAvailable = @ - 1]]

\* unregister user, add back one seat
Unregister_KeepSeat(prof, conf, wsck) ==
    [prof |-> [prof EXCEPT !.conferenceKeysToAttend = Remove(@, wsck)],
     conf |-> conf]
Unregister(prof, conf, wsck) ==
    [prof |-> [prof EXCEPT !.conferenceKeysToAttend = Remove(@, wsck)],
     conf |-> [conf EXCEPT !.seatsAvailable = @ + 1]]

\* what one run of _conferenceRegistration does with the Profile and the
\* Conference it reads: the result, and the entities it puts (none when it raises)
RegistrationOutcome(u, reg, wsck, profRead, confRead) ==
    LET prof == IF IsNone(profRead) THEN NewProfile(u) ELSE Val(profRead)
        conf == Val(confRead)
        Raise(e) == [result |-> e, put |-> FALSE, prof |-> prof, conf |-> None]
        Return(v, w) ==
            [result |-> v, put |-> TRUE, prof |-> w.prof, conf |-> Some(w.conf)]
    IN  IF IsNone(confRead) THEN Raise("NotFoundException")
        ELSE IF reg
        THEN IF AlreadyRegistered(prof, wsck)
             THEN Raise("Conflict:AlreadyRegistered")
             ELSE IF NoSeats(conf) THEN Raise("Conflict:NoSeats")
             ELSE Return("True", Register(prof, conf, wsck))
        ELSE IF AlreadyRegistered(prof, wsck)
             THEN Return("True", Unregister(prof, conf, wsck))
             ELSE Return("False", [prof |-> prof, conf |-> conf])

\* _conferenceRegistration under @ndb.transactional(xg=True)
_conferenceRegistration(op, u, wsck, reg) ==
    /\ UNCHANGED <<sessions, taskqueue, req>>
    /\ UNCHANGED others
    /\ response' = Response(op, u, wsck,
           IF u = NoUser THEN "UnauthorizedException"
           ELSE RegistrationOutcome(u, reg, wsck, Get(profiles, u),
                                    Get(conferences, wsck)).result)
    /\ IF u = NoUser
       THEN UNCHANGED <<profiles, conferences, seatsHeld>>
       ELSE LET out == RegistrationOutcome(u, reg, wsck, Get(profiles, u),
                                           Get(conferences, wsck))
                counted == out.result = "True"
            IN  /\ counted /\ reg => seatsHeld[u][wsck] < MaxOps
                /\ counted /\ ~reg => seatsHeld[u][wsck] > -MaxOps
                /\ profiles' = IF out.put THEN Put(profiles, u, out.prof)
                               ELSE profiles
                /\ conferences' = IF out.put
                                  THEN Put(conferences, wsck, Val(out.conf))
                                  ELSE conferences
                /\ seatsHeld' =
                     IF counted
                     THEN [seatsHeld EXCEPT ![u][wsck] = IF reg THEN @ + 1 ELSE @ - 1]
                     ELSE seatsHeld

registerForConference(u, wsck) ==
    _conferenceRegistration("registerForConference", u, wsck, TRUE)

unregisterFromConference(u, wsck) ==
    _conferenceRegistration("unregisterFromConference", u, wsck, FALSE)

\* ---------------------------------------------------------------- sessions
\* Session.allocate_ids(size=1, parent=confKey)[0]
AllocSessionId == Cardinality(DOMAIN sessions) + 1

\* user_id == conf.organizerUserId
IsOwner_Anyone(u, conf) == TRUE
IsOwner(u, conf) == u = conf.organizerUserId

createSession(u, wsck, speakerKey) ==
    /\ UNCHANGED <<profiles, conferences, req, seatsHeld>>
    /\ UNCHANGED others
    /\ IF u = NoUser
       THEN /\ response' = Response("createSession", u, wsck, "UnauthorizedException")
            /\ UNCHANGED <<sessions, taskqueue>>
       ELSE IF wsck \notin DOMAIN conferences
       THEN /\ response' = Response("createSession", u, wsck, "BadRequestException")
            /\ UNCHANGED <<sessions, taskqueue>>
       ELSE IF ~IsOwner(u, conferences[wsck])
       THEN /\ response' = Response("createSession", u, wsck, "ForbiddenException")
            /\ UNCHANGED <<sessions, taskqueue>>
       ELSE /\ AllocSessionId <= MaxSessions
            /\ sessions' = Put(sessions, AllocSessionId,
                               [conferenceKey |-> wsck, speakerKey |-> speakerKey])
            /\ taskqueue' = Append(taskqueue,
                   [url |-> "/tasks/set_featured_speaker",
                    params |-> <<speakerKey, wsck>>])
            /\ response' = Response("createSession", u, wsck, "SessionForm")

\* ---------------------------------------------------------------- wishlist
addSessionToWishlist(r, u, sessionKey) ==
    _getProfileFromUser(r, "addSessionToWishlist", u, sessionKey, NoForm,
                        AfterProfile("addSessionToWishlist"))

removeSessionFromWishlist(r, u, sessionKey) ==
    _getProfileFromUser(r, "removeSessionFromWishlist", u, sessionKey, NoForm,
                        AfterProfile("removeSessionFromWishlist"))

\* sessionKey in prof.sessionWishlist
InWishlist_Never(prof, sessionKey) == FALSE
InWishlist(prof, sessionKey) == Contains(prof.sessionWishlist, sessionKey)

\* _wishlistRegistration after _getProfileFromUser: the session lookup, the
\* membership test on the Profile it holds, and prof.put()
_wishlistRegistration(r) ==
    LET u == req[r].user
        sessionKey == req[r].key
        add == req[r].op = "addSessionToWishlist"
        prof == Val(req[r].prof)
        listed == InWishlist(prof, sessionKey)
        result == IF sessionKey \notin DOMAIN sessions THEN "NotFoundException"
                  ELSE IF add /\ listed THEN "Conflict:AlreadyInWishlist"
                  ELSE IF ~add /\ ~listed THEN "Conflict:NotInWishlist"
                  ELSE "True"
    IN  /\ req[r].pc = "loaded"
        /\ profiles' =
             IF result # "True" THEN profiles
             ELSE Put(profiles, u,
                      [prof EXCEPT !.sessionWishlist =
                           IF add THEN Append(@, sessionKey)
                           ELSE Remove(@, sessionKey)])
        /\ req' = [req EXCEPT ![r] = Idle]
        /\ response' = Response(req[r].op, u, sessionKey, result)
        /\ UNCHANGED <<conferences, sessions, taskqueue, seatsHeld>>
        /\ UNCHANGED others

\* ---------------------------------------------------------------- speakers
\* Speaker.allocate_ids(size=1)[0]
AllocSpeakerId == CHOOSE k \in SpeakerKeys \ DOMAIN speakers : TRUE

addSpeaker(r, u, speaker_name) ==
    _getProfileFromUser(r, "addSpeaker", u, 0,
                        [NoForm EXCEPT !.displayName = Some(speaker_name)],
                        AfterProfile("addSpeaker"))

\* addSpeaker after _getProfileFromUser: Speaker(**data).put()
addSpeakerPut(r) ==
    /\ req[r].pc = "speaker"
    /\ SpeakerKeys \ DOMAIN speakers # {}
    /\ speakers' = Put(speakers, AllocSpeakerId,
                       [speaker_name |-> Val(req[r].form.displayName)])
    /\ req' = [req EXCEPT ![r] = Idle]
    /\ response' = Response("addSpeaker", req[r].user, 0, "True")
    /\ UNCHANGED <<profiles, conferences, sessions, taskqueue, seatsHeld,
                   memcache, query>>

\* ---------------------------------------------------------------- featured speaker
MEMCACHE_FEATURED_SPEAKER_KEY == "FEATURED_SPEAKER"

\* '%s %s' % ('The featured speaker for this conference is: ', speaker_name)
FeaturedSpeakerString ==
    [Ann |-> "The featured speaker for this conference is:  Ann",
     Bob |-> "The featured speaker for this conference is:  Bob"]

\* Session.query(ancestor=confKey).filter(Session.speakerKey == speakerKey).count()
SessionCount(speakerKey, conferenceKey) ==
    Cardinality({k \in DOMAIN sessions :
                     /\ sessions[k].conferenceKey = conferenceKey
                     /\ sessions[k].speakerKey = speakerKey})

\* sessionCount > 1
IsFeatured(sessionCount) == sessionCount > 1

\* list.pop(i)
Without(list, i) == SubSeq(list, 1, i - 1) \o SubSeq(list, i + 1, Len(list))

\* the task /tasks/set_featured_speaker at place i of the queue runs
\* _cacheFeaturedSpeaker(speakerKey, conferenceKey); a run that raises keeps
\* the task in the queue
_cacheFeaturedSpeaker(i) ==
    LET speakerKey == taskqueue[i].params[1]
        conferenceKey == taskqueue[i].params[2]
        sessionCount == SessionCount(speakerKey, conferenceKey)
        speaker == IF IsNone(speakerKey) THEN None
                   ELSE Get(speakers, Val(speakerKey))
    IN  /\ i \in 1..Len(taskqueue)
        /\ taskqueue[i].url = "/tasks/set_featured_speaker"
        /\ UNCHANGED <<profiles, conferences, sessions, req, seatsHeld,
                       speakers, query>>
        /\ IF ~IsFeatured(sessionCount)
           THEN /\ response' = Response("_cacheFeaturedSpeaker", NoUser,
                                        conferenceKey, "")
                /\ taskqueue' = Without(taskqueue, i)
                /\ UNCHANGED memcache
           ELSE IF IsNone(speaker)
           THEN /\ response' = Response("_cacheFeaturedSpeaker", NoUser,
                                        conferenceKey, "AttributeError")
                /\ UNCHANGED <<taskqueue, memcache>>
           ELSE /\ response' = Response("_cacheFeaturedSpeaker", NoUser,
                       conferenceKey, FeaturedSpeakerString[Val(speaker).speaker_name])
                /\ taskqueue' = Without(taskqueue, i)
                /\ memcache' = Put(memcache, MEMCACHE_FEATURED_SPEAKER_KEY,
                                   FeaturedSpeakerString[Val(speaker).speaker_name])

\* memcache.get(key), and "" for no value
CacheGet(key) == IF key \in DOMAIN memcache THEN memcache[key] ELSE ""

getFeaturedSpeaker ==
    /\ response' = Response("getFeaturedSpeaker", NoUser, 0,
                            CacheGet(MEMCACHE_FEATURED_SPEAKER_KEY))
    /\ UNCHANGED <<profiles, conferences, sessions, taskqueue, req, seatsHeld,
                   speakers, memcache, query>>

\* ---------------------------------------------------------------- announcements
MEMCACHE_ANNOUNCEMENTS_KEY == "RECENT_ANNOUNCEMENTS"

\* the announcement is the sequence of its parts: the opening sentence, then
\* the names ', '.join puts after it; "" is the empty sequence
LastChance == "Last chance to attend! The following conferences are nearly sold out:"

\* Conference.seatsAvailable <= 5, Conference.seatsAvailable > 0
NearlySoldOut_OrFull(conf) == conf.seatsAvailable <= 5
NearlySoldOut(conf) == conf.seatsAvailable <= 5 /\ conf.seatsAvailable > 0

\* the keys the query fetches, in the order of its index: by seatsAvailable,
\* then by key
RECURSIVE Fetch(_)
Fetch(keys) ==
    IF keys = {} THEN << >>
    ELSE LET c == CHOOSE k \in keys : \A j \in keys :
                      \/ conferences[k].seatsAvailable < conferences[j].seatsAvailable
                      \/ /\ conferences[k].seatsAvailable = conferences[j].seatsAvailable
                         /\ k <= j
         IN  <<c>> \o Fetch(keys \ {c})

\* memcache.delete(key)
Delete(cache, key) == [k \in DOMAIN cache \ {key} |-> cache[k]]

_cacheAnnouncement ==
    LET confs == Fetch({c \in DOMAIN conferences : NearlySoldOut(conferences[c])})
        announcement == <<LastChance>> \o
                        [i \in 1..Len(confs) |-> conferences[confs[i]].name]
    IN  /\ memcache' = IF confs # << >>
                       THEN Put(memcache, MEMCACHE_ANNOUNCEMENTS_KEY, announcement)
                       ELSE Delete(memcache, MEMCACHE_ANNOUNCEMENTS_KEY)
        /\ UNCHANGED <<profiles, conferences, sessions, taskqueue, req, response,
                       seatsHeld, speakers, query>>

getAnnouncement ==
    /\ response' = Response("getAnnouncement", NoUser, 0,
                            IF MEMCACHE_ANNOUNCEMENTS_KEY \in DOMAIN memcache
                            THEN memcache[MEMCACHE_ANNOUNCEMENTS_KEY] ELSE << >>)
    /\ UNCHANGED <<profiles, conferences, sessions, taskqueue, req, seatsHeld,
                   speakers, memcache, query>>

\* ---------------------------------------------------------------- queries
MaxFilters == 2      \* filters one ConferenceQueryForms carries

OPERATORS == [EQ |-> "=", GT |-> ">", GTEQ |-> ">=", LT |-> "<", LTEQ |-> "<=",
              NE |-> "!="]
FIELDS == [CITY |-> "city", TOPIC |-> "topics", MONTH |-> "month",
           MAX_ATTENDEES |-> "maxAttendees"]

\* the filters a request may carry: field and operator names in and out of
\* the tables, a value that int() converts and one it does not
FilterFields == {"CITY", "MONTH", "MAX_ATTENDEES", "COUNTRY"}
FilterOperators == {"EQ", "GT", "NE", "LIKE"}
FilterValues == {"7", "June"}
Filters == [field : FilterFields, operator : FilterOperators, value : FilterValues]
FilterLists == UNION {[1..n -> Filters] : n \in 0..MaxFilters}

\* filtr["operator"] != "="
IsInequality_OnlyGreater(operator) == operator = ">"
IsInequality(operator) == operator # "="

\* _formatFilters from filter i on, with the inequality_field and the
\* formatted_filters of the filters before it
RECURSIVE FormatFrom(_, _, _, _)
FormatFrom(filters, i, inequality_field, formatted_filters) ==
    IF i > Len(filters)
    THEN [error |-> "", inequality_field |-> inequality_field,
          filters |-> formatted_filters]
    ELSE IF \/ filters[i].field \notin DOMAIN FIELDS
            \/ filters[i].operator \notin DOMAIN OPERATORS
    THEN [error |-> "BadRequestException", inequality_field |-> inequality_field,
          filters |-> formatted_filters]
    ELSE LET filtr == [field |-> FIELDS[filters[i].field],
                       operator |-> OPERATORS[filters[i].operator],
                       value |-> filters[i].value]
         IN  IF IsInequality(filtr.operator)
             THEN IF ~IsNone(inequality_field) /\ Val(inequality_field) # filtr.field
                  THEN [error |-> "BadRequestException",
                        inequality_field |-> inequality_field,
                        filters |-> formatted_filters]
                  ELSE FormatFrom(filters, i + 1, Some(filtr.field),
                                  Append(formatted_filters, filtr))
             ELSE FormatFrom(filters, i + 1, inequality_field,
                             Append(formatted_filters, filtr))

_formatFilters(filters) == FormatFrom(filters, 1, None, << >>)

\* int(value): the strings it converts, any other raises ValueError
IntOf == [x \in {"7"} |-> 7]
NeedsInt(filtr) == filtr.field \in {"month", "maxAttendees"}

\* ndb.query.FilterNode(field, operator, value), value converted for the
\* numeric fields
FilterNode(filtr) ==
    [field |-> filtr.field, operator |-> filtr.operator,
     string |-> IF NeedsInt(filtr) THEN None ELSE Some(filtr.value),
     integer |-> IF NeedsInt(filtr) THEN Some(IntOf[filtr.value]) ELSE None]

\* _getQuery: the orders and filter nodes of the query, or the exception
_getQuery(filters) ==
    LET ff == _formatFilters(filters)
        order == IF IsNone(ff.inequality_field) THEN <<"name">>
                 ELSE <<Val(ff.inequality_field), "name">>
        Fails == [filters |-> filters, error |-> ff.error,
                  inequality_filter |-> ff.inequality_field,
                  order |-> << >>, nodes |-> << >>]
    IN  IF ff.error # "" THEN Fails
        ELSE IF \E i \in 1..Len(ff.filters) :
                    NeedsInt(ff.filters[i]) /\ ff.filters[i].value \notin DOMAIN IntOf
        THEN [Fails EXCEPT !.error = "ValueError"]
        ELSE [filters |-> filters, error |-> "",
              inequality_filter |-> ff.inequality_field,
              order |-> order,
              nodes |-> [i \in 1..Len(ff.filters) |-> FilterNode(ff.filters[i])]]

\* a queryConferences request that carries `filters`, before it is handled
Pending(filters) == [NoQuery EXCEPT !.filters = filters, !.error = "pending"]

\* queryConferences up to the query it runs
queryConferences ==
    /\ query.error = "pending"
    /\ query' = _getQuery(query.filters)
    /\ UNCHANGED <<profiles, conferences, sessions, taskqueue, req, response,
                   seatsHeld, speakers, memcache>>

\* ---------------------------------------------------------------- specifications
\* conferences created with one seat, for the specifications that are not
\* about seat counts
OneSeatForms ==
    {form \in ConferenceForms :
         form.maxAttendees = Some(1) /\ IsNone(form.seatsAvailable)}

\* The steps of each group of handlers, for requests by the callers C in the
\* slots S.
NextConference(C, forms) ==
    \/ \E u \in C, form \in forms : _createConferenceObject(u, form)
    \/ \E u \in C, form \in OneSeatForms : createConference(u, form)

NextRegistration(C) ==
    \E u \in C, wsck \in ConfKeys :
        \/ registerForConference(u, wsck)
        \/ unregisterFromConference(u, wsck)

\* createSession requests, storing sessions up to id `n`
NextSession(C, speakerKeys, n) ==
    \E u \in C, wsck \in ConfKeys, speakerKey \in speakerKeys :
        /\ createSession(u, wsck, speakerKey)
        /\ sessions' # sessions => AllocSessionId <= n

NextWishlist(S, C) ==
    \/ \E r \in S, u \in C, sessionKey \in WishlistKeys :
           \/ addSessionToWishlist(r, u, sessionKey)
           \/ removeSessionFromWishlist(r, u, sessionKey)
    \/ \E r \in S :
           \/ _getProfileFromUserPut(r)
           \/ _wishlistRegistration(r)

NextProfile(S, C) ==
    \/ \E r \in S, u \in C, form \in ProfileMiniForms :
           saveProfile(r, u, form)
    \/ \E r \in S :
           \/ _getProfileFromUserPut(r)
           \/ _doProfile(r)

\* conferences of one organizer (or of nobody), registration by every caller
Next ==
    \/ NextConference({"u1", NoUser}, ConferenceForms)
    \/ NextRegistration(Callers)
Spec == Init /\ [][Next]_vars

\* conferences of one organizer, sessions, and the wishlist requests of two
\* users and the anonymous caller, one request at a time
TwoCallers == {"u1", "u2", NoUser}
NextW ==
    \/ NextConference({"u1"}, OneSeatForms)
    \/ NextSession(TwoCallers, {Some("sp1")}, MaxWishlist)
    \/ NextWishlist({1}, TwoCallers)
SpecWishlist == Init /\ [][NextW]_vars

\* the same with wishlist requests in every slot, running beside each other
NextWC ==
    \/ NextConference({"u1"}, OneSeatForms)
    \/ NextSession(TwoCallers, {Some("sp1")}, MaxWishlist)
    \/ NextWishlist(Slots, TwoCallers)
SpecWishlistConcurrent == Init /\ [][NextWC]_vars

\* one caller whose registrations run beside a request of theirs that puts
\* the Profile outside a transaction
NextC ==
    \/ NextConference({"u1"}, OneSeatForms)
    \/ NextRegistration({"u1"})
    \/ NextSession({"u1"}, Opt({"sp1"}), MaxWishlist)
    \/ NextWishlist({1}, {"u1"})
    \/ NextProfile({1}, {"u1"})
SpecConcurrent == Init /\ [][NextC]_vars

\* queryConferences alone, for every list of filters
InitQ == InitStore /\ query \in {Pending(filters) : filters \in FilterLists}
NextQ == queryConferences
SpecQuery == InitQ /\ [][NextQ]_vars

\* speakers added by one user, sessions of an organizer's conference for
\* speakers stored or not, and the featured speaker tasks, run in any order
NextSpeaker(S, C) ==
    \/ \E r \in S, u \in C, speaker_name \in SpeakerNames :
           addSpeaker(r, u, speaker_name)
    \/ \E r \in S :
           \/ _getProfileFromUserPut(r)
           \/ addSpeakerPut(r)

NextFeatured ==
    \/ \E i \in 1..MaxSessions + MaxConfs : _cacheFeaturedSpeaker(i)
    \/ getFeaturedSpeaker

NextS ==
    \/ NextConference({"u1"}, OneSeatForms)
    \/ NextSpeaker({1}, {"u1"})
    \/ NextSession({"u1", "u2"}, Opt(SpeakerKeys), MaxSessions)
    \/ NextFeatured
SpecSession == Init /\ [][NextS]_vars

\* the announcement recomputed and read over every store of a few
\* conferences that are full, nearly sold out or neither, with an older
\* announcement cached or none
MaxAnnounced == 3    \* conferences in the store of the announcement
AnnouncedNames == {"Alpha", "Beta"}
AnnouncedSeats == {0, 1, 5, 6}
AnnouncedConferences ==
    [name : AnnouncedNames, maxAttendees : {6}, seatsAvailable : AnnouncedSeats,
     organizerUserId : {"u1"}]
InitA ==
    /\ profiles = << >>
    /\ conferences \in UNION {[1..n -> AnnouncedConferences] : n \in 0..MaxAnnounced}
    /\ sessions = << >>
    /\ taskqueue = << >>
    /\ req = [r \in Slots |-> Idle]
    /\ response = Response("none", NoUser, 0, "none")
    /\ seatsHeld = [u \in Users |-> [c \in ConfKeys |-> 0]]
    /\ speakers = << >>
    /\ memcache \in {<< >>,
                      Put(<< >>, MEMCACHE_ANNOUNCEMENTS_KEY, <<LastChance, "Alpha">>)}
    /\ query = NoQuery
NextA == _cacheAnnouncement \/ getAnnouncement
SpecAnnouncement == InitA /\ [][NextA]_vars

\* ---------------------------------------------------------------- properties
\* conferenceKeysToAttend of u's Profile (empty while u has no Profile)
Attending(u) ==
    IF u \in DOMAIN profiles THEN profiles[u].conferenceKeysToAttend ELSE << >>
AttendingNext(u) ==
    IF u \in DOMAIN profiles' THEN profiles'[u].conferenceKeysToAttend ELSE << >>

\* this step ends a request: a handler that runs in one step, or the last
\* step of the handler in a slot
Completes ==
    \/ req' = req
    \/ \E r \in Slots : req[r].pc # "idle" /\ req'[r].pc = "idle"

\* this step ends a request for handler `op` by an identified caller
Returns(op, u, k) ==
    /\ Completes
    /\ response'.op = op /\ response'.user = u /\ response'.key = k

\* C1: a seat of a conference is held for a profile exactly when the
\* conference's key is in that profile's conferenceKeysToAttend, in every
\* state reached under concurrent requests
C1_NoPartialRegistration ==
    \A u \in Users, c \in ConfKeys : seatsHeld[u][c] = Count(Attending(u), c)

\* C2: every stored Conference has 0 <= seatsAvailable <= maxAttendees
C2_SeatsInRange ==
    \A c \in DOMAIN conferences :
        /\ 0 <= conferences[c].seatsAvailable
        /\ conferences[c].seatsAvailable <= conferences[c].maxAttendees

RECURSIVE Sum(_, _)
Sum(f, S) == IF S = {} THEN 0
             ELSE LET x == CHOOSE y \in S : TRUE IN f[x] + Sum(f, S \ {x})

\* N - M for conference c: its registrations that returned True less its
\* unregistrations that returned True
NetRegistrations(c) == Sum([u \in Users |-> seatsHeld[u][c]], Users)

\* C3: after N registrations and M unregistrations that succeeded,
\* seatsAvailable = maxAttendees - N + M
C3_SeatAccounting ==
    \A c \in DOMAIN conferences :
        conferences[c].seatsAvailable =
            conferences[c].maxAttendees - NetRegistrations(c)

\* C4: registrations of distinct callers for one conference serialize: each
\* one that succeeds finds a seat in the stored Conference and takes exactly
\* that one, each other one ends in a conflict and takes none, and no
\* registration takes seatsAvailable from 0 or more to below 0
C4_SerializableRegistration ==
    [][\A u \in Users, c \in DOMAIN conferences :
          Returns("registerForConference", u, c) =>
              LET k == conferences[c].seatsAvailable
                  kNext == conferences'[c].seatsAvailable
              IN  /\ response'.result = "True" => k > 0 /\ kNext = k - 1
                  /\ response'.result # "True" =>
                         response'.result \in ConflictException /\ kNext = k
                  /\ k >= 0 => kNext >= 0]_vars

\* three callers registered for a conference of two seats: two hold a seat
\* and the third ended in the conflict of no seats left
C4_Witness ==
    \E c \in DOMAIN conferences, v \in Users :
        /\ response = Response("registerForConference", v, c, "Conflict:NoSeats")
        /\ conferences[c].maxAttendees = 2
        /\ conferences[c].seatsAvailable = 0
        /\ Attending(v) = << >>
        /\ \A u \in Users \ {v} : Attending(u) = <<c>> /\ seatsHeld[u][c] = 1

\* C5: a registration by a profile already registered for the conference
\* ends in a conflict and changes nothing, so the profile holds one seat and
\* the conference key is once in its conferenceKeysToAttend
C5_RegisterTwice ==
    [][\A u \in Users, c \in DOMAIN conferences :
          (Returns("registerForConference", u, c) /\ Contains(Attending(u), c)) =>
              /\ response'.result = "Conflict:AlreadyRegistered"
              /\ profiles' = profiles /\ conferences' = conferences
              /\ Count(AttendingNext(u), c) = 1
              /\ seatsHeld'[u][c] = 1]_vars

C5_Witness ==
    \E u \in Users, c \in DOMAIN conferences :
        /\ response = Response("registerForConference", u, c,
                               "Conflict:AlreadyRegistered")
        /\ Count(Attending(u), c) = 1
        /\ seatsHeld[u][c] = 1
        /\ conferences[c].seatsAvailable = conferences[c].maxAttendees - 1

\* C6: registerForConference with seatsAvailable <= 0 ends in a conflict and
\* leaves seatsAvailable and the caller's conferenceKeysToAttend as they
\* were; with the caller not registered and seatsAvailable > 0 it appends
\* the conference key and takes exactly one seat
C6_Register ==
    [][\A u \in Users, c \in DOMAIN conferences :
          Returns("registerForConference", u, c) =>
              LET k == conferences[c].seatsAvailable
              IN  /\ k <= 0 =>
                      /\ response'.result \in ConflictException
                      /\ conferences'[c].seatsAvailable = k
                      /\ AttendingNext(u) = Attending(u)
                  /\ (k > 0 /\ ~Contains(Attending(u), c)) =>
                      /\ response'.result = "True"
                      /\ AttendingNext(u) = Append(Attending(u), c)
                      /\ conferences'[c].seatsAvailable = k - 1]_vars

\* a caller registered, and the other caller's registration found no seat
C6_Witness ==
    \E u \in Users, v \in Users, c \in DOMAIN conferences :
        /\ u # v
        /\ response = Response("registerForConference", v, c, "Conflict:NoSeats")
        /\ Attending(u) = <<c>> /\ Attending(v) = << >>
        /\ seatsHeld[u][c] = 1 /\ seatsHeld[v][c] = 0
        /\ conferences[c].seatsAvailable = 0

\* C7: unregisterFromConference for an existing conference returns False
\* and leaves seatsAvailable and conferenceKeysToAttend as they were when
\* the caller is not registered; when registered it removes the key, gives
\* exactly one seat back and returns True
C7_Unregister ==
    [][\A u \in Users, c \in DOMAIN conferences :
          Returns("unregisterFromConference", u, c) =>
              LET k == conferences[c].seatsAvailable
              IN  /\ ~Contains(Attending(u), c) =>
                      /\ response'.result = "False"
                      /\ conferences'[c].seatsAvailable = k
                      /\ AttendingNext(u) = Attending(u)
                  /\ Contains(Attending(u), c) =>
                      /\ response'.result = "True"
                      /\ AttendingNext(u) = Remove(Attending(u), c)
                      /\ ~Contains(AttendingNext(u), c)
                      /\ conferences'[c].seatsAvailable = k + 1]_vars

\* a caller who is not registered has unregistered and got False, beside a
\* caller who holds a seat
C7_Witness ==
    \E u \in Users, v \in Users, c \in DOMAIN conferences :
        /\ response = Response("unregisterFromConference", u, c, "False")
        /\ u \in DOMAIN profiles /\ Attending(u) = << >>
        /\ Attending(v) = <<c>>
        /\ conferences[c].seatsAvailable = conferences[c].maxAttendees - 1

\* sessionWishlist of u's Profile (empty while u has no Profile)
Wishlist(u) ==
    IF u \in DOMAIN profiles THEN profiles[u].sessionWishlist ELSE << >>

\* C8: addSessionToWishlist for a session already in the caller's wishlist,
\* and removeSessionFromWishlist for a session not in it, end in a conflict
\* and leave the wishlist (and every Profile) as it was; the other two cases
\* return True
C8_WishlistConflict ==
    [][\A r \in Slots :
          (/\ req[r].op \in {"addSessionToWishlist", "removeSessionFromWishlist"}
           /\ req[r].pc # "idle" /\ req'[r].pc = "idle"
           /\ req[r].key \in DOMAIN sessions) =>
              LET add == req[r].op = "addSessionToWishlist"
                  listed == Contains(Wishlist(req[r].user), req[r].key)
              IN  /\ response'.op = req[r].op /\ response'.user = req[r].user
                  /\ (add /\ listed) =>
                      /\ response'.result = "Conflict:AlreadyInWishlist"
                      /\ profiles' = profiles
                  /\ (~add /\ ~listed) =>
                      /\ response'.result = "Conflict:NotInWishlist"
                      /\ profiles' = profiles
                  /\ (add /\ ~listed) => response'.result = "True"
                  /\ (~add /\ listed) => response'.result = "True"]_vars

\* a caller whose wishlist holds the session added it again and got the
\* conflict
C8_Witness ==
    \E u \in Users, k \in DOMAIN sessions :
        /\ response = Response("addSessionToWishlist", u, k,
                               "Conflict:AlreadyInWishlist")
        /\ u \in DOMAIN profiles
        /\ profiles[u].sessionWishlist = <<k>>
        /\ \A r \in Slots : req[r].pc = "idle"

IdentityOperations ==
    {"createConference", "registerForConference", "unregisterFromConference",
     "createSession", "addSessionToWishlist", "removeSessionFromWishlist"}

\* C9: every operation that needs the caller's identity raises
\* UnauthorizedException for a caller without one, puts no entity and adds
\* no task
C9_Unauthorized ==
    [][(Completes /\ response'.user = NoUser
                  /\ response'.op \in IdentityOperations) =>
           /\ response'.result = "UnauthorizedException"
           /\ UNCHANGED <<profiles, conferences, sessions, taskqueue>>]_vars

\* C9 for the operations other than createConference
C9_UnauthorizedButCreateConference ==
    [][(Completes /\ response'.user = NoUser
                  /\ response'.op \in IdentityOperations \ {"createConference"}) =>
           /\ response'.result = "UnauthorizedException"
           /\ UNCHANGED <<profiles, conferences, sessions, taskqueue>>]_vars

\* C10: a Conference is stored with seatsAvailable equal to maxAttendees
C10_SeatsForcedToMax ==
    [][\A c \in ConfKeys :
          (c \notin DOMAIN conferences /\ c \in DOMAIN conferences') =>
              conferences'[c].seatsAvailable = conferences'[c].maxAttendees]_vars

\* what C11 asks of a step that handles a ConferenceForm of caller u: with a
\* name, success and exactly one new Conference organized by u, every other
\* entity as it was; without a name, a client error and nothing stored
CreatesOneConference(u, form) ==
    IF IsNone(form.name)
    THEN /\ response'.result = "BadRequestException"
         /\ UNCHANGED <<profiles, conferences, sessions, taskqueue>>
    ELSE /\ response'.result = "ConferenceForm"
         /\ \E c \in ConfKeys \ DOMAIN conferences :
                /\ DOMAIN conferences' = DOMAIN conferences \cup {c}
                /\ conferences'[c].organizerUserId = u
                /\ conferences'[c].name = Val(form.name)
                /\ \A d \in DOMAIN conferences : conferences'[d] = conferences[d]
         /\ UNCHANGED <<profiles, sessions>>

\* C11: createConference by an authenticated caller with a name completes
\* and adds exactly one Conference with the caller as organizer, changing no
\* existing entity; without a name it is rejected as a client error and
\* stores nothing
C11_CreateConference ==
    [][\A u \in Users, form \in OneSeatForms :
          createConference(u, form) => CreatesOneConference(u, form)]_vars

\* C11 for the body of _createConferenceObject called with both parameters
C11_CreateConferenceObject ==
    [][\A u \in Users, form \in ConferenceForms :
          _createConferenceObject(u, form) => CreatesOneConference(u, form)]_vars

\* the fields of the request's filters that carry an operator other than EQ
InequalityFields(filters) ==
    {filters[i].field : i \in {j \in 1..Len(filters) : filters[j].operator # "EQ"}}

\* some field or operator name of the request is outside the tables
OutsideWhitelists(filters) ==
    \E i \in 1..Len(filters) :
        \/ filters[i].field \notin {"CITY", "TOPIC", "MONTH", "MAX_ATTENDEES"}
        \/ filters[i].operator \notin {"EQ", "GT", "GTEQ", "LT", "LTEQ", "NE"}

\* C12: queryConferences is rejected as a client error exactly when a field
\* or operator is outside the whitelists or operators other than EQ are
\* applied to two different fields; otherwise the inequality field reported
\* is the single field that carries such an operator, or none
C12_FilterValidation ==
    LET filters == query.filters
        rejected == query.error = "BadRequestException"
    IN  query.error # "pending" =>
        /\ rejected <=> \/ OutsideWhitelists(filters)
                        \/ Cardinality(InequalityFields(filters)) > 1
        /\ ~rejected =>
              IF InequalityFields(filters) = {}
              THEN IsNone(query.inequality_filter)
              ELSE \E f \in InequalityFields(filters) :
                       query.inequality_filter = Some(FIELDS[f])

\* accepted: an inequality on one field after an equality on another
C12_Witness ==
    /\ query.error = ""
    /\ Len(query.filters) = 2
    /\ query.filters[1].field = "CITY" /\ query.filters[1].operator = "EQ"
    /\ query.filters[2].field = "MAX_ATTENDEES" /\ query.filters[2].operator = "GT"
    /\ query.inequality_filter = Some("maxAttendees")
    /\ query.order = <<"maxAttendees", "name">>

\* rejected: inequalities on two different fields
C12_WitnessRejected ==
    /\ query.error = "BadRequestException"
    /\ Len(query.filters) = 2
    /\ query.filters[1].field = "MAX_ATTENDEES" /\ query.filters[1].operator = "GT"
    /\ query.filters[2].field = "MONTH" /\ query.filters[2].operator = "NE"

\* the filters pass _formatFilters and the request ends in ValueError
C12_ValueError ==
    /\ query.error = "ValueError"
    /\ ~OutsideWhitelists(query.filters)
    /\ Cardinality(InequalityFields(query.filters)) <= 1

\* C13: createSession by an authenticated caller ends in a client error when
\* the conference does not exist and in a forbidden error when the caller is
\* not its organizer, storing no Session and adding no task either time; a
\* step stores a Session only as createSession by the organizer of an
\* existing conference, and stores one Session for that conference
C13_CreateSession ==
    [][/\ \A u \in Users, wsck \in ConfKeys :
             Returns("createSession", u, wsck) =>
                 /\ wsck \notin DOMAIN conferences =>
                        /\ response'.result = "BadRequestException"
                        /\ UNCHANGED <<sessions, taskqueue>>
                 /\ (/\ wsck \in DOMAIN conferences
                     /\ conferences[wsck].organizerUserId # u) =>
                        /\ response'.result = "ForbiddenException"
                        /\ UNCHANGED <<sessions, taskqueue>>
       /\ sessions' # sessions =>
             /\ response'.op = "createSession"
             /\ response'.result = "SessionForm"
             /\ response'.key \in DOMAIN conferences
             /\ conferences[response'.key].organizerUserId = response'.user
             /\ \E k \in SessionKeys \ DOMAIN sessions :
                    /\ DOMAIN sessions' = DOMAIN sessions \cup {k}
                    /\ sessions'[k].conferenceKey = response'.key
                    /\ \A j \in DOMAIN sessions : sessions'[j] = sessions[j]]_vars

\* a caller who is not the organizer was refused although the conference
\* exists, and the conference has no session
C13_Witness ==
    \E u \in Users, c \in DOMAIN conferences :
        /\ response = Response("createSession", u, c, "ForbiddenException")
        /\ conferences[c].organizerUserId # u
        /\ sessions = << >>

\* C14: the speakerKey of every stored Session is the key of a stored Speaker
C14_SpeakerResolves ==
    \A k \in DOMAIN sessions :
        /\ ~IsNone(sessions[k].speakerKey)
        /\ Val(sessions[k].speakerKey) \in DOMAIN speakers

\* C14 for the sessions whose request carried a speakerKey
C14_SpeakerResolvesWhenGiven ==
    \A k \in DOMAIN sessions :
        ~IsNone(sessions[k].speakerKey) =>
            Val(sessions[k].speakerKey) \in DOMAIN speakers

\* the value cached for the featured speaker after this step names the
\* speaker with key speakerKey
FeaturedNext(speakerKey) ==
    /\ ~IsNone(speakerKey)
    /\ Val(speakerKey) \in DOMAIN speakers
    /\ MEMCACHE_FEATURED_SPEAKER_KEY \in DOMAIN memcache'
    /\ memcache'[MEMCACHE_FEATURED_SPEAKER_KEY] =
           FeaturedSpeakerString[speakers[Val(speakerKey)].speaker_name]

\* getFeaturedSpeaker returns the cached value, and "" when none is cached
ReturnsCached ==
    getFeaturedSpeaker =>
        response'.result =
            IF MEMCACHE_FEATURED_SPEAKER_KEY \in DOMAIN memcache
            THEN memcache[MEMCACHE_FEATURED_SPEAKER_KEY] ELSE ""

\* C15: when the task of a createSession with the speaker key s at conference
\* c has run, the cached value names s if s has another session at c beside the
\* one created, and is what it was before if that session is s's only one
\* at c; getFeaturedSpeaker returns the cached value, and "" when there is none
C15_FeaturedSpeaker ==
    [][/\ \A i \in 1..Len(taskqueue) :
             _cacheFeaturedSpeaker(i) =>
                 LET speakerKey == taskqueue[i].params[1]
                     conferenceKey == taskqueue[i].params[2]
                 IN  /\ (/\ SessionCount(speakerKey, conferenceKey) > 1
                         /\ ~IsNone(speakerKey)) =>
                            FeaturedNext(speakerKey)
                     /\ SessionCount(speakerKey, conferenceKey) <= 1 =>
                            memcache' = memcache
       /\ ReturnsCached]_vars

\* C15 for the tasks whose speakerKey is the key of a stored Speaker
C15_FeaturedStoredSpeaker ==
    [][/\ \A i \in 1..Len(taskqueue) :
             _cacheFeaturedSpeaker(i) =>
                 LET speakerKey == taskqueue[i].params[1]
                     conferenceKey == taskqueue[i].params[2]
                 IN  /\ (/\ SessionCount(speakerKey, conferenceKey) > 1
                         /\ ~IsNone(speakerKey)
                         /\ Val(speakerKey) \in DOMAIN speakers) =>
                            FeaturedNext(speakerKey)
                     /\ SessionCount(speakerKey, conferenceKey) <= 1 =>
                            memcache' = memcache
       /\ ReturnsCached]_vars

\* a speaker is featured, and the task of another speaker's first session
\* has run and left the cached value
C15_FirstSessionKeepsValue ==
    \E c \in DOMAIN conferences, s \in DOMAIN speakers, t \in DOMAIN speakers :
        /\ s # t /\ speakers[s].speaker_name # speakers[t].speaker_name
        /\ SessionCount(Some(s), c) = 2 /\ SessionCount(Some(t), c) = 1
        /\ taskqueue = << [url |-> "/tasks/send_confirmation_email",
                           params |-> <<"u1">>] >>
        /\ response = Response("_cacheFeaturedSpeaker", NoUser, c, "")
        /\ CacheGet(MEMCACHE_FEATURED_SPEAKER_KEY) =
               FeaturedSpeakerString[speakers[s].speaker_name]

\* the conferences with 1 to 5 seats left
OneToFive == {c \in DOMAIN conferences :
                 conferences[c].seatsAvailable \in 1..5}

\* C16: right after _cacheAnnouncement the cached announcement names exactly
\* the conferences with 1 to 5 seats left, each once, and there is no cache
\* entry when there is no such conference; getAnnouncement returns the
\* cached announcement, and "" when there is none
C16_Announcement ==
    [][/\ _cacheAnnouncement =>
             IF OneToFive = {}
             THEN MEMCACHE_ANNOUNCEMENTS_KEY \notin DOMAIN memcache'
             ELSE /\ MEMCACHE_ANNOUNCEMENTS_KEY \in DOMAIN memcache'
                  /\ LET announcement == memcache'[MEMCACHE_ANNOUNCEMENTS_KEY]
                     IN  /\ Head(announcement) = LastChance
                         /\ Len(announcement) = 1 + Cardinality(OneToFive)
                         /\ \A name \in AnnouncedNames :
                                Count(Tail(announcement), name) =
                                    Cardinality({c \in OneToFive :
                                                    conferences[c].name = name})
       /\ getAnnouncement =>
             response'.result =
                 IF MEMCACHE_ANNOUNCEMENTS_KEY \in DOMAIN memcache
                 THEN memcache[MEMCACHE_ANNOUNCEMENTS_KEY] ELSE << >>]_vars

\* conferences with 0, 1 and 6 seats: the announcement names the one with 1
\* seat only, and getAnnouncement has returned it
C16_Witness ==
    /\ DOMAIN conferences = 1..3
    /\ conferences[1].seatsAvailable = 0 /\ conferences[1].name = "Alpha"
    /\ conferences[2].seatsAvailable = 1 /\ conferences[2].name = "Beta"
    /\ conferences[3].seatsAvailable = 6 /\ conferences[3].name = "Alpha"
    /\ MEMCACHE_ANNOUNCEMENTS_KEY \in DOMAIN memcache
    /\ memcache[MEMCACHE_ANNOUNCEMENTS_KEY] = <<LastChance, "Beta">>
    /\ response.op = "getAnnouncement"
    /\ response.result = <<LastChance, "Beta">>

\* no conference has 1 to 5 seats: the older announcement is deleted and
\* getAnnouncement has returned the empty string
C16_WitnessDeleted ==
    /\ DOMAIN conferences = 1..2
    /\ conferences[1].seatsAvailable = 0
    /\ conferences[2].seatsAvailable = 6
    /\ MEMCACHE_ANNOUNCEMENTS_KEY \notin DOMAIN memcache
    /\ response.op = "getAnnouncement"
    /\ response.result = << >>

WishlistNext(u) ==
    IF u \in DOMAIN profiles' THEN profiles'[u].sessionWishlist ELSE << >>

\* the stored wishlist of every user holds each session key at most once
C17_AtMostOnce ==
    \A u \in Users, k \in SessionKeys : Count(Wishlist(u), k) <= 1

\* this step ends a wishlist request of u that returns True, and the stored
\* wishlist becomes what it was with the request's key added or removed
AppliesUpdate(u) ==
    \E r \in Slots :
        /\ req[r].user = u
        /\ req[r].pc = "loaded" /\ req'[r].pc = "idle"
        /\ response'.result = "True"
        /\ \/ /\ req[r].op = "addSessionToWishlist"
              /\ WishlistNext(u) = Append(Wishlist(u), req[r].key)
           \/ /\ req[r].op = "removeSessionFromWishlist"
              /\ Contains(Wishlist(u), req[r].key)
              /\ WishlistNext(u) = Remove(Wishlist(u), req[r].key)

\* C17: under concurrent addSessionToWishlist and removeSessionFromWishlist
\* requests a stored wishlist holds each session key at most once, and no
\* update is lost: a stored wishlist changes only by a request that adds its
\* key to, or removes it from, the wishlist as stored
C17_WishlistUpdates ==
    [][\A u \in Users :
          /\ \A k \in SessionKeys : Count(WishlistNext(u), k) <= 1
          /\ WishlistNext(u) # Wishlist(u) => AppliesUpdate(u)]_vars

\* the errors of the API: unauthorized, not-found, client error, forbidden,
\* conflict
Errors ==
    {"UnauthorizedException", "NotFoundException", "BadRequestException",
     "ForbiddenException"} \cup ConflictException

\* C18: an operation that ends in an error leaves the store as it was: the
\* step that raises the error changes no entity, adds no task, and the
\* request has left no Profile it created on the way
C18_ErrorsChangeNothing ==
    [][(Completes /\ response'.result \in Errors) =>
           /\ UNCHANGED <<profiles, conferences, sessions, speakers, taskqueue>>
           /\ \A r \in Slots :
                  (req[r].pc # "idle" /\ req'[r].pc = "idle" /\ req[r].fresh) =>
                      req[r].user \notin DOMAIN profiles']_vars

\* C18 for the operations that run in one step (createSession, and
\* registerForConference and unregisterFromConference in their transaction)
C18_OneStepErrorsChangeNothing ==
    [][(req' = req /\ response'.result \in Errors) =>
           UNCHANGED <<profiles, conferences, sessions, speakers, taskqueue>>]_vars
====
